---- MODULE Spec2Model ----
(***************************************************************************)
(* Model of the device store of onos-topo (package device, atomixStore):   *)
(* Load / Store / Delete / List / Watch over a replicated map with         *)
(* optimistic concurrency control.  The replicated map itself              *)
(* (atomix-go-client _map.Map) is an external collaborator; its behaviour  *)
(* at the boundary (MapGet, MapPut, MapRemove, MapEntries, MapWatch)       *)
(* follows the specification of the ReplicatedMap component.               *)
(***************************************************************************)
EXTENDS Integers, Sequences, FiniteSets, TLC

\* ---------------------------------------------------------------- bounds
MaxVersion == 2
MaxFeed == 3

Ids == {"d1", "d2"}
Data == {"a", "b"}
Clients == {"c1", "c2"}
Watchers == {"w1"}
Listers == {"l1"}

\* ------------------------------------------------------------- constants
EventNone == ""
EventInserted == "inserted"
EventUpdated == "updated"
EventRemoved == "removed"

ErrNone == "nil"
ConflictError == "conflict"
ClosedStore == "closed"
DecodeError == "decode"

VARIABLES
    entries,    \* the map: key -> [present, value, version]
    versions,   \* the map's per-key version counter
    dev,        \* each caller's *Device object
    pc,         \* each caller's position: idle, or inside Store / Delete
    req,        \* the map request a caller has in flight
    res,        \* the outcome of each caller's last completed call
    wpc,        \* each Watch subscription: idle or running
    mapCh,      \* per subscription: raw map events not yet received
    sink,       \* per subscription: Events delivered on ch
    snapshot,   \* per subscription: how many delivered Events were replayed
    last,       \* history: the map operation applied by the latest step, if any:
                \* its caller, its key, the entry it found, the caller's device
                \* and the outcome of the caller's previous call on that device
    rivals,     \* history: per caller in Store, the callers whose Store with
                \* the same id and revision succeeded during this call
    racing,     \* history: per subscription, the callers that were inside
                \* Store when the subscription was set up
    lpc,        \* each List call: idle, running or closed (ch closed)
    listCh,     \* per List call: entries of the enumeration not yet received
    lsink,      \* per List call: Devices delivered on ch
    listed,     \* history: per List call, the map as it was at the call
    script,     \* each caller's position in the end-to-end scenario
    taken,      \* history: per subscription, the raw events its goroutine
                \* has received from the feed, in order
    ended,      \* per subscription: the map has closed the feed's channel
    ltaken,     \* history: per List call, the entries its goroutine has
                \* received from the enumeration, in order
    closed,     \* Close has been called
    gone        \* the streams (List calls, subscriptions) whose consumer has
                \* stopped receiving from ch

vars == <<entries, versions, dev, pc, req, res, wpc, mapCh, sink, snapshot,
          last, rivals, racing, lpc, listCh, lsink, listed, script,
          taken, ended, ltaken, closed, gone>>
mapVars == <<entries, versions>>
watchVars == <<wpc, mapCh, sink, snapshot, racing, taken, ended>>
listVars == <<lpc, listCh, lsink, listed, ltaken>>
lifeVars == <<closed, gone>>

\* ------------------------------------------------------------ data types
Device(id, revision, data) == [id |-> id, revision |-> revision, data |-> data]

NoDevice == Device("", 0, "")

NoBytes == [wf |-> TRUE, id |-> "", revision |-> 0, data |-> ""]

NoEntry == [present |-> FALSE, value |-> NoBytes, version |-> 0]

NoReq == [key |-> "", value |-> NoBytes, cond |-> FALSE, version |-> 0]

NoRes == [op |-> "none", err |-> ErrNone, found |-> FALSE]

NoLast == [op |-> "none", c |-> "", key |-> "", old |-> NoEntry, dev |-> NoDevice, prev |-> NoRes,
           requests |-> 0]

NoEvent == [type |-> EventNone, key |-> "", value |-> NoBytes, version |-> 0, replay |-> FALSE]

\* (a Marshal that encodes the metadata fields only)
MarshalMetadataOnly(device) ==
    [wf |-> TRUE, id |-> device.id, revision |-> device.revision, data |-> ""]

\* proto.Marshal(device): every field of the message is serialized
Marshal(device) ==
    [wf |-> TRUE, id |-> device.id, revision |-> device.revision, data |-> device.data]

\* proto.Unmarshal(value, device)
Unmarshal(value) ==
    IF value.wf
    THEN [err |-> ErrNone, device |-> Device(value.id, value.revision, value.data)]
    ELSE [err |-> DecodeError, device |-> NoDevice]

\* (a decodeDevice that ignores the error of proto.Unmarshal and returns the
\* device as far as it was filled in)
decodeDeviceLenient(key, value, version) ==
    LET u == Unmarshal(value) IN
    [err |-> ErrNone, device |-> Device(key, version, u.device.data)]

\* (a decodeDevice that keeps the id found in the payload)
decodeDeviceKeepID(key, value, version) ==
    LET u == Unmarshal(value) IN
    IF u.err # ErrNone
    THEN [err |-> u.err, device |-> NoDevice]
    ELSE [err |-> ErrNone, device |-> Device(u.device.id, version, u.device.data)]

\* (a decodeDevice that keeps the revision found in the payload)
decodeDeviceKeepRevision(key, value, version) ==
    LET u == Unmarshal(value) IN
    IF u.err # ErrNone
    THEN [err |-> u.err, device |-> NoDevice]
    ELSE [err |-> ErrNone, device |-> Device(key, u.device.revision, u.device.data)]

decodeDevice(key, value, version) ==
    LET u == Unmarshal(value) IN
    IF u.err # ErrNone
    THEN [err |-> u.err, device |-> NoDevice]
    ELSE [err |-> ErrNone, device |-> Device(key, version, u.device.data)]

\* ------------------------------------------------ the replicated map
MapGet(es, key) == es[key]

\* the raw events a put / remove publishes to every running subscription
\* whose feed has not ended
Publish(chs, event) ==
    [w \in Watchers |->
        IF wpc[w] = "running" /\ ~ended[w] THEN Append(chs[w], event) ELSE chs[w]]

\* put(key, value [, WithVersion(version)])
MapPut(es, vs, r) ==
    LET old == es[r.key] IN
    IF r.cond /\ (~old.present \/ old.version # r.version)
    THEN [err |-> ConflictError, entries |-> es, versions |-> vs,
          version |-> 0, event |-> NoEvent]
    ELSE LET v == vs[r.key] + 1 IN
         [err |-> ErrNone,
          entries |-> [es EXCEPT ![r.key] = [present |-> TRUE, value |-> r.value, version |-> v]],
          versions |-> [vs EXCEPT ![r.key] = v],
          version |-> v,
          event |-> [type |-> IF old.present THEN EventUpdated ELSE EventInserted,
                     key |-> r.key, value |-> r.value, version |-> v, replay |-> FALSE]]

\* remove(key [, WithVersion(version)])
MapRemove(es, vs, r) ==
    LET old == es[r.key] IN
    IF ~old.present
    THEN [err |-> ErrNone, entries |-> es, versions |-> vs, event |-> NoEvent]
    ELSE IF r.cond /\ old.version # r.version
    THEN [err |-> ConflictError, entries |-> es, versions |-> vs, event |-> NoEvent]
    ELSE [err |-> ErrNone,
          entries |-> [es EXCEPT ![r.key] = NoEntry],
          versions |-> vs,
          event |-> [type |-> EventRemoved, key |-> r.key, value |-> old.value,
                     version |-> old.version, replay |-> FALSE]]

\* entries(ch): the possible orders in which the current entries are sent
RECURSIVE MapEntries(_, _)
MapEntries(es, keys) ==
    IF keys = {} THEN {<<>>}
    ELSE UNION {
        { <<[key |-> k, value |-> es[k].value, version |-> es[k].version]>> \o rest :
            rest \in MapEntries(es, keys \ {k}) } : k \in keys }

\* the replay of a subscription: one event per existing entry
RECURSIVE ReplayOf(_, _)
ReplayOf(es, keys) ==
    IF keys = {} THEN {<<>>}
    ELSE UNION {
        { <<[type |-> EventInserted, key |-> k, value |-> es[k].value,
             version |-> es[k].version, replay |-> TRUE]>> \o rest :
            rest \in ReplayOf(es, keys \ {k}) } : k \in keys }

\* watch(ch [, WithReplay()]): the possible initial contents of the feed
MapWatch(es, replay) ==
    IF replay THEN ReplayOf(es, {k \in Ids : es[k].present}) ELSE {<<>>}

\* the store's handle on the map (s.devices): once the store is closed
\* every request made through it is refused with ClosedStore, and the map
\* is neither read nor changed
devicesGet(key) ==
    IF closed THEN [err |-> ClosedStore, kv |-> NoEntry]
    ELSE [err |-> ErrNone, kv |-> MapGet(entries, key)]

devicesPut(r) ==
    IF closed
    THEN [err |-> ClosedStore, entries |-> entries, versions |-> versions,
          version |-> 0, event |-> NoEvent]
    ELSE MapPut(entries, versions, r)

devicesRemove(r) ==
    IF closed
    THEN [err |-> ClosedStore, entries |-> entries, versions |-> versions,
          event |-> NoEvent]
    ELSE MapRemove(entries, versions, r)

devicesEntries ==
    IF closed THEN [err |-> ClosedStore, feeds |-> {<<>>}]
    ELSE [err |-> ErrNone,
          feeds |-> MapEntries(entries, {k \in Ids : entries[k].present})]

devicesWatch(replay) ==
    IF closed THEN [err |-> ClosedStore, feeds |-> {<<>>}]
    ELSE [err |-> ErrNone, feeds |-> MapWatch(entries, replay)]

\* history: the map operation a request through the handle has applied
Applied(op) == IF closed THEN "refused" ELSE op

\* ---------------------------------------------------------------- Init
Init ==
    /\ entries = [k \in Ids |-> NoEntry]
    /\ versions = [k \in Ids |-> 0]
    /\ dev = [c \in Clients |-> Device("d1", 0, "a")]
    /\ pc = [c \in Clients |-> "idle"]
    /\ req = [c \in Clients |-> NoReq]
    /\ res = [c \in Clients |-> NoRes]
    /\ wpc = [w \in Watchers |-> "idle"]
    /\ mapCh = [w \in Watchers |-> <<>>]
    /\ sink = [w \in Watchers |-> <<>>]
    /\ snapshot = [w \in Watchers |-> 0]
    /\ last = NoLast
    /\ rivals = [c \in Clients |-> {}]
    /\ racing = [w \in Watchers |-> {}]
    /\ lpc = [l \in Listers |-> "idle"]
    /\ listCh = [l \in Listers |-> <<>>]
    /\ lsink = [l \in Listers |-> <<>>]
    /\ listed = [l \in Listers |-> <<entries, versions>>]
    /\ script = [c \in Clients |-> 0]
    /\ taken = [w \in Watchers |-> <<>>]
    /\ ended = [w \in Watchers |-> FALSE]
    /\ ltaken = [l \in Listers |-> <<>>]
    /\ closed = FALSE
    /\ gone = {}

\* ------------------------------------------------------------- callers
\* a caller builds the Device it is going to pass to Store or Delete
NewDevice(c, id, revision, data) ==
    /\ pc[c] = "idle"
    /\ dev' = [dev EXCEPT ![c] = Device(id, revision, data)]
    /\ res' = [res EXCEPT ![c] = NoRes]
    /\ last' = NoLast
    /\ UNCHANGED <<mapVars, pc, req, watchVars, rivals, listVars, lifeVars>>

\* (a Load that decodes the map's answer also when there is no entry)
LoadNoNilCheck(c, deviceID) ==
    /\ pc[c] = "idle"
    /\ LET kv == MapGet(entries, deviceID)
           d == decodeDevice(deviceID, kv.value, kv.version) IN
       /\ res' = [res EXCEPT ![c] = [op |-> "load", err |-> d.err, found |-> d.err = ErrNone]]
       /\ dev' = IF d.err = ErrNone THEN [dev EXCEPT ![c] = d.device] ELSE dev
    /\ last' = [op |-> "get", c |-> c, key |-> deviceID, old |-> entries[deviceID],
                dev |-> dev[c], prev |-> res[c], requests |-> 1]
    /\ UNCHANGED <<mapVars, pc, req, watchVars, rivals, listVars, lifeVars>>

\* (a Load that writes the device it decoded back under its key)
LoadWriteBack(c, deviceID) ==
    /\ pc[c] = "idle"
    /\ LET g == devicesGet(deviceID)
           kv == g.kv
           d == decodeDevice(deviceID, kv.value, kv.version)
           back == MapPut(entries, versions,
                          [key |-> deviceID, value |-> Marshal(d.device),
                           cond |-> FALSE, version |-> 0]) IN
       IF g.err # ErrNone \/ ~kv.present \/ d.err # ErrNone \/ back.version > MaxVersion
       THEN /\ res' = [res EXCEPT ![c] = [op |-> "load", err |-> IF kv.present THEN d.err ELSE g.err,
                                          found |-> FALSE]]
            /\ UNCHANGED <<dev, mapVars, mapCh>>
       ELSE /\ res' = [res EXCEPT ![c] = [op |-> "load", err |-> ErrNone, found |-> TRUE]]
            /\ dev' = [dev EXCEPT ![c] = d.device]
            /\ entries' = back.entries
            /\ versions' = back.versions
            /\ mapCh' = mapCh
    /\ last' = [op |-> Applied("get"), c |-> c, key |-> deviceID, old |-> entries[deviceID],
                dev |-> dev[c], prev |-> res[c], requests |-> 1]
    /\ UNCHANGED <<pc, req, wpc, sink, snapshot, racing, taken, ended, rivals, listVars, lifeVars>>

\* (a Load that takes an error of Get for a miss)
LoadDropError(c, deviceID) ==
    /\ pc[c] = "idle"
    /\ LET g == devicesGet(deviceID)
           kv == g.kv IN
       IF g.err # ErrNone \/ ~kv.present
       THEN /\ res' = [res EXCEPT ![c] = [op |-> "load", err |-> ErrNone, found |-> FALSE]]
            /\ dev' = dev
       ELSE LET d == decodeDevice(deviceID, kv.value, kv.version) IN
            /\ res' = [res EXCEPT ![c] = [op |-> "load", err |-> d.err, found |-> d.err = ErrNone]]
            /\ dev' = IF d.err = ErrNone THEN [dev EXCEPT ![c] = d.device] ELSE dev
    /\ last' = [op |-> Applied("get"), c |-> c, key |-> deviceID, old |-> entries[deviceID],
                dev |-> dev[c], prev |-> res[c], requests |-> 1]
    /\ UNCHANGED <<mapVars, pc, req, watchVars, rivals, listVars, lifeVars>>

\* Load: Get, then nothing on an error, nil, nil on a miss, and the decoded
\* entry otherwise
Load(c, deviceID) ==
    /\ pc[c] = "idle"
    /\ LET g == devicesGet(deviceID)
           kv == g.kv IN
       IF g.err # ErrNone
       THEN /\ res' = [res EXCEPT ![c] = [op |-> "load", err |-> g.err, found |-> FALSE]]
            /\ dev' = dev
       ELSE IF ~kv.present
       THEN /\ res' = [res EXCEPT ![c] = [op |-> "load", err |-> ErrNone, found |-> FALSE]]
            /\ dev' = dev
       ELSE LET d == decodeDevice(deviceID, kv.value, kv.version) IN
            /\ res' = [res EXCEPT ![c] = [op |-> "load", err |-> d.err, found |-> d.err = ErrNone]]
            /\ dev' = IF d.err = ErrNone THEN [dev EXCEPT ![c] = d.device] ELSE dev
    /\ last' = [op |-> Applied("get"), c |-> c, key |-> deviceID, old |-> entries[deviceID],
                dev |-> dev[c], prev |-> res[c], requests |-> 1]
    /\ UNCHANGED <<mapVars, pc, req, watchVars, rivals, listVars, lifeVars>>

\* every running subscription has room for one more event
FeedRoom == \A w \in Watchers : Len(mapCh[w]) + Len(sink[w]) < MaxFeed

\* (a Store that never locks on the revision)
PutRequestUnconditional(device) ==
    [key |-> device.id, value |-> Marshal(device),
     cond |-> FALSE, version |-> device.revision]

\* (a Store that locks on the revision also when it is 0)
PutRequestAlwaysLocked(device) ==
    [key |-> device.id, value |-> Marshal(device),
     cond |-> TRUE, version |-> device.revision]

\* Store, the choice of the put: unconditional for revision 0, else
\* an optimistic lock on the revision
PutRequest(device) ==
    [key |-> device.id, value |-> Marshal(device),
     cond |-> device.revision # 0, version |-> device.revision]

\* (a Store that counts the revision up by itself)
UpdateMetadataIncrement(device, version) ==
    Device(device.id, device.revision + 1, device.data)

\* (a Store that leaves the caller's revision alone)
UpdateMetadataKeep(device, version) == device

\* Store, the update of the device metadata from the map's answer
UpdateMetadata(device, version) == [device EXCEPT !.revision = version]

\* (a Delete that never locks on the revision)
RemoveRequestUnconditional(device) ==
    [key |-> device.id, value |-> NoBytes,
     cond |-> FALSE, version |-> device.revision]

\* (a Delete that locks on the revision also when it is 0)
RemoveRequestAlwaysLocked(device) ==
    [key |-> device.id, value |-> NoBytes,
     cond |-> TRUE, version |-> device.revision]

\* Delete, the choice of the remove
RemoveRequest(device) ==
    [key |-> device.id, value |-> NoBytes,
     cond |-> device.revision > 0, version |-> device.revision]

\* (a Delete that reports a remove that found nothing as an error)
DeleteResultNotFound(r) ==
    IF r.err = ErrNone /\ r.event = NoEvent THEN "not found" ELSE r.err

\* Delete, the error returned for the map's answer r
DeleteResult(r) == r.err

\* Store up to the map request: marshal, choose the put
StoreCall(c) ==
    /\ pc[c] = "idle"
    /\ FeedRoom
    /\ pc' = [pc EXCEPT ![c] = "store"]
    /\ req' = [req EXCEPT ![c] = PutRequest(dev[c])]
    /\ last' = NoLast
    /\ rivals' = [rivals EXCEPT ![c] = {}]
    /\ UNCHANGED <<mapVars, dev, res, watchVars, listVars, lifeVars>>

\* (a Store that updates the metadata from the map's answer before it
\* looks at the error)
StoreDoneUpdateFirst(c) ==
    /\ pc[c] = "store"
    /\ LET kv == devicesPut(req[c]) IN
       /\ kv.err = ErrNone => kv.version <= MaxVersion
       /\ entries' = kv.entries
       /\ versions' = kv.versions
       /\ mapCh' = IF kv.err = ErrNone THEN Publish(mapCh, kv.event) ELSE mapCh
       /\ dev' = [dev EXCEPT ![c] = UpdateMetadata(dev[c], kv.version)]
       /\ res' = [res EXCEPT ![c] = [op |-> "store", err |-> kv.err, found |-> FALSE]]
       /\ rivals' = rivals
    /\ last' = [op |-> Applied("put"), c |-> c, key |-> req[c].key, old |-> entries[req[c].key],
                dev |-> dev[c], prev |-> res[c], requests |-> 1]
    /\ pc' = [pc EXCEPT ![c] = "idle"]
    /\ req' = [req EXCEPT ![c] = NoReq]
    /\ UNCHANGED <<wpc, sink, snapshot, racing, taken, ended, listVars, lifeVars>>

\* (a Store that answers a conflict by putting once more, unconditionally)
StoreDoneRetry(c) ==
    /\ pc[c] = "store"
    /\ LET first == devicesPut(req[c])
           again == first.err = ConflictError
           kv == IF again THEN devicesPut([req[c] EXCEPT !.cond = FALSE]) ELSE first IN
       /\ kv.err = ErrNone => kv.version <= MaxVersion
       /\ entries' = kv.entries
       /\ versions' = kv.versions
       /\ mapCh' = IF kv.err = ErrNone THEN Publish(mapCh, kv.event) ELSE mapCh
       /\ dev' = IF kv.err = ErrNone
                 THEN [dev EXCEPT ![c] = UpdateMetadata(dev[c], kv.version)]
                 ELSE dev
       /\ res' = [res EXCEPT ![c] = [op |-> "store", err |-> kv.err, found |-> FALSE]]
       /\ rivals' = rivals
       /\ last' = [op |-> Applied("put"), c |-> c, key |-> req[c].key, old |-> entries[req[c].key],
                   dev |-> dev[c], prev |-> res[c], requests |-> IF again THEN 2 ELSE 1]
    /\ pc' = [pc EXCEPT ![c] = "idle"]
    /\ req' = [req EXCEPT ![c] = NoReq]
    /\ UNCHANGED <<wpc, sink, snapshot, racing, taken, ended, listVars, lifeVars>>

\* Store from the map's answer on: error return, or update of the metadata
\* (the map applies a put only while its version counter is below MaxVersion)
StoreDone(c) ==
    /\ pc[c] = "store"
    /\ LET kv == devicesPut(req[c]) IN
       /\ kv.err = ErrNone => kv.version <= MaxVersion
       /\ entries' = kv.entries
       /\ versions' = kv.versions
       /\ mapCh' = IF kv.err = ErrNone THEN Publish(mapCh, kv.event) ELSE mapCh
       /\ dev' = IF kv.err = ErrNone
                 THEN [dev EXCEPT ![c] = UpdateMetadata(dev[c], kv.version)]
                 ELSE dev
       /\ res' = [res EXCEPT ![c] = [op |-> "store", err |-> kv.err, found |-> FALSE]]
       /\ rivals' = [d \in Clients |->
                        IF /\ d # c /\ kv.err = ErrNone /\ pc[d] = "store"
                           /\ dev[d].id = dev[c].id
                           /\ dev[d].revision = dev[c].revision
                           /\ dev[c].revision > 0
                        THEN rivals[d] \cup {c}
                        ELSE rivals[d]]
    /\ last' = [op |-> Applied("put"), c |-> c, key |-> req[c].key, old |-> entries[req[c].key],
                dev |-> dev[c], prev |-> res[c], requests |-> 1]
    /\ pc' = [pc EXCEPT ![c] = "idle"]
    /\ req' = [req EXCEPT ![c] = NoReq]
    /\ UNCHANGED <<wpc, sink, snapshot, racing, taken, ended, listVars, lifeVars>>

\* Delete up to the map request
DeleteCall(c) ==
    /\ pc[c] = "idle"
    /\ FeedRoom
    /\ pc' = [pc EXCEPT ![c] = "delete"]
    /\ req' = [req EXCEPT ![c] = RemoveRequest(dev[c])]
    /\ last' = NoLast
    /\ UNCHANGED <<mapVars, dev, res, watchVars, rivals, listVars, lifeVars>>

\* Delete from the map's answer on
DeleteDone(c) ==
    /\ pc[c] = "delete"
    /\ LET r == devicesRemove(req[c]) IN
       /\ entries' = r.entries
       /\ versions' = r.versions
       /\ mapCh' = IF r.event # NoEvent THEN Publish(mapCh, r.event) ELSE mapCh
       /\ res' = [res EXCEPT ![c] = [op |-> "delete", err |-> DeleteResult(r), found |-> FALSE]]
    /\ last' = [op |-> Applied("remove"), c |-> c, key |-> req[c].key, old |-> entries[req[c].key],
                dev |-> dev[c], prev |-> res[c], requests |-> 1]
    /\ pc' = [pc EXCEPT ![c] = "idle"]
    /\ req' = [req EXCEPT ![c] = NoReq]
    /\ UNCHANGED <<dev, wpc, sink, snapshot, rivals, racing, taken, ended, listVars, lifeVars>>

\* ------------------------------------------------------- other writers
\* the bytes another client of the replicated map may leave under a key:
\* a well-formed payload that encodes an id and a revision of its own
ForeignBytes == {[wf |-> TRUE, id |-> "d2", revision |-> MaxVersion + 1, data |-> "b"]}

\* bytes that are no encoding of a Device: proto.Unmarshal rejects them
CorruptBytes == {[wf |-> FALSE, id |-> "", revision |-> 0, data |-> ""]}

\* another client of the replicated map puts bytes under a key
ForeignPut(key, value) ==
    /\ FeedRoom
    /\ LET kv == MapPut(entries, versions,
                        [key |-> key, value |-> value, cond |-> FALSE, version |-> 0]) IN
       /\ kv.version <= MaxVersion
       /\ entries' = kv.entries
       /\ versions' = kv.versions
       /\ mapCh' = Publish(mapCh, kv.event)
    /\ last' = NoLast
    /\ UNCHANGED <<dev, pc, req, res, wpc, sink, snapshot, rivals, racing, taken, ended, listVars, lifeVars>>

\* the kinds of notification a feed may carry besides inserted, updated and
\* removed: none, and a kind the store has no name for
OtherKinds == {EventNone, "other"}

\* the map sends a notification of another kind about an entry it holds
MapNotify(key, kind) ==
    /\ FeedRoom
    /\ entries[key].present
    /\ mapCh' = Publish(mapCh, [type |-> kind, key |-> key, value |-> entries[key].value,
                                version |-> entries[key].version, replay |-> FALSE])
    /\ last' = NoLast
    /\ UNCHANGED <<mapVars, dev, pc, req, res, wpc, sink, snapshot, rivals, racing, taken,
                   ended, listVars, lifeVars>>

\* ------------------------------------------------------------- Watch
\* (a Watch that subscribes without WithReplay)
WatchNoReplay(w) ==
    /\ wpc[w] = "idle"
    /\ wpc' = [wpc EXCEPT ![w] = "running"]
    /\ \E feed \in MapWatch(entries, FALSE) : mapCh' = [mapCh EXCEPT ![w] = feed]
    /\ racing' = [racing EXCEPT ![w] = {c \in Clients : pc[c] = "store"}]
    /\ last' = NoLast
    /\ UNCHANGED <<mapVars, dev, pc, req, res, sink, snapshot, rivals, listVars, taken, ended, lifeVars>>

\* (a Watch that starts the delivery goroutine whatever the subscription
\* returned)
WatchIgnoreError(w) ==
    /\ wpc[w] = "idle"
    /\ LET m == devicesWatch(TRUE) IN
       /\ wpc' = [wpc EXCEPT ![w] = "running"]
       /\ \E feed \in m.feeds : mapCh' = [mapCh EXCEPT ![w] = feed]
    /\ racing' = [racing EXCEPT ![w] = {c \in Clients : pc[c] = "store"}]
    /\ last' = NoLast
    /\ UNCHANGED <<mapVars, dev, pc, req, res, sink, snapshot, rivals, listVars, taken, ended, lifeVars>>

\* Watch: subscribe with replay and, unless the subscription fails, start
\* the delivery goroutine
Watch(w) ==
    /\ wpc[w] = "idle"
    /\ LET m == devicesWatch(TRUE) IN
       /\ wpc' = [wpc EXCEPT ![w] = IF m.err # ErrNone THEN "failed" ELSE "running"]
       /\ \E feed \in m.feeds : mapCh' = [mapCh EXCEPT ![w] = feed]
    /\ racing' = [racing EXCEPT ![w] = {c \in Clients : pc[c] = "store"}]
    /\ last' = NoLast
    /\ UNCHANGED <<mapVars, dev, pc, req, res, sink, snapshot, rivals, listVars, taken, ended, lifeVars>>

\* (a delivery that sends each event to the sink twice)
WatchDeliverTwice(w) ==
    /\ wpc[w] = "running"
    /\ mapCh[w] # <<>>
    /\ LET event == Head(mapCh[w])
           d == decodeDevice(event.key, event.value, event.version)
           e == [type |-> event.type, device |-> d.device] IN
       /\ mapCh' = [mapCh EXCEPT ![w] = Tail(mapCh[w])]
       /\ IF d.err = ErrNone
          THEN /\ sink' = [sink EXCEPT ![w] = Append(Append(sink[w], e), e)]
               /\ snapshot' = [snapshot EXCEPT ![w] = IF event.replay THEN @ + 2 ELSE @]
          ELSE UNCHANGED <<sink, snapshot>>
    /\ taken' = [taken EXCEPT ![w] = Append(taken[w], Head(mapCh[w]))]
    /\ last' = NoLast
    /\ UNCHANGED <<mapVars, dev, pc, req, res, wpc, rivals, racing, ended, listVars, lifeVars>>

\* (a delivery that leaves the Type of the Event unset)
WatchDeliverUntyped(w) ==
    /\ wpc[w] = "running"
    /\ mapCh[w] # <<>>
    /\ LET event == Head(mapCh[w])
           d == decodeDevice(event.key, event.value, event.version) IN
       /\ mapCh' = [mapCh EXCEPT ![w] = Tail(mapCh[w])]
       /\ IF d.err = ErrNone
          THEN /\ sink' = [sink EXCEPT ![w] = Append(sink[w], [type |-> EventNone, device |-> d.device])]
               /\ snapshot' = [snapshot EXCEPT ![w] = IF event.replay THEN @ + 1 ELSE @]
          ELSE UNCHANGED <<sink, snapshot>>
    /\ taken' = [taken EXCEPT ![w] = Append(taken[w], Head(mapCh[w]))]
    /\ last' = NoLast
    /\ UNCHANGED <<mapVars, dev, pc, req, res, wpc, rivals, racing, ended, listVars, lifeVars>>

\* (a delivery that takes the newest event of the feed, not the oldest)
WatchDeliverNewest(w) ==
    /\ wpc[w] = "running"
    /\ mapCh[w] # <<>>
    /\ LET event == mapCh[w][Len(mapCh[w])]
           d == decodeDevice(event.key, event.value, event.version) IN
       /\ mapCh' = [mapCh EXCEPT ![w] = SubSeq(mapCh[w], 1, Len(mapCh[w]) - 1)]
       /\ IF d.err = ErrNone
          THEN /\ sink' = [sink EXCEPT ![w] = Append(sink[w], [type |-> event.type, device |-> d.device])]
               /\ snapshot' = [snapshot EXCEPT ![w] = IF event.replay THEN @ + 1 ELSE @]
          ELSE UNCHANGED <<sink, snapshot>>
    /\ taken' = [taken EXCEPT ![w] = Append(taken[w], mapCh[w][Len(mapCh[w])])]
    /\ last' = NoLast
    /\ UNCHANGED <<mapVars, dev, pc, req, res, wpc, rivals, racing, ended, listVars, lifeVars>>

\* (a goroutine that returns, closing ch, at the first event that fails to
\* decode)
WatchDeliverAbort(w) ==
    /\ wpc[w] = "running"
    /\ mapCh[w] # <<>>
    /\ LET event == Head(mapCh[w])
           d == decodeDevice(event.key, event.value, event.version) IN
       /\ d.err = ErrNone => w \notin gone
       /\ mapCh' = [mapCh EXCEPT ![w] = Tail(mapCh[w])]
       /\ IF d.err = ErrNone
          THEN /\ sink' = [sink EXCEPT ![w] = Append(sink[w], [type |-> event.type, device |-> d.device])]
               /\ snapshot' = [snapshot EXCEPT ![w] = IF event.replay THEN @ + 1 ELSE @]
               /\ wpc' = wpc
          ELSE /\ wpc' = [wpc EXCEPT ![w] = "closed"]
               /\ UNCHANGED <<sink, snapshot>>
    /\ taken' = [taken EXCEPT ![w] = Append(taken[w], Head(mapCh[w]))]
    /\ last' = NoLast
    /\ UNCHANGED <<mapVars, dev, pc, req, res, rivals, racing, ended, listVars, lifeVars>>

\* one iteration of the delivery goroutine: receive, decode, send
WatchDeliver(w) ==
    /\ wpc[w] = "running"
    /\ mapCh[w] # <<>>
    /\ LET event == Head(mapCh[w])
           d == decodeDevice(event.key, event.value, event.version) IN
       /\ d.err = ErrNone => w \notin gone
       /\ mapCh' = [mapCh EXCEPT ![w] = Tail(mapCh[w])]
       /\ IF d.err = ErrNone
          THEN /\ sink' = [sink EXCEPT ![w] = Append(sink[w], [type |-> event.type, device |-> d.device])]
               /\ snapshot' = [snapshot EXCEPT ![w] = IF event.replay THEN @ + 1 ELSE @]
          ELSE UNCHANGED <<sink, snapshot>>
    /\ taken' = [taken EXCEPT ![w] = Append(taken[w], Head(mapCh[w]))]
    /\ last' = NoLast
    /\ UNCHANGED <<mapVars, dev, pc, req, res, wpc, rivals, racing, ended, listVars, lifeVars>>

\* the backing map fails: it ends the feed of a running subscription by
\* closing its channel
FeedFail(w) ==
    /\ wpc[w] = "running"
    /\ ~ended[w]
    /\ ended' = [ended EXCEPT ![w] = TRUE]
    /\ last' = NoLast
    /\ UNCHANGED <<mapVars, dev, pc, req, res, wpc, mapCh, sink, snapshot, rivals, racing,
                   taken, listVars, lifeVars>>

\* (a goroutine that closes ch as soon as the feed has nothing to receive)
WatchCloseIdle(w) ==
    /\ wpc[w] = "running"
    /\ mapCh[w] = <<>>
    /\ wpc' = [wpc EXCEPT ![w] = "closed"]
    /\ last' = NoLast
    /\ UNCHANGED <<mapVars, dev, pc, req, res, mapCh, sink, snapshot, rivals, racing,
                   taken, ended, listVars, lifeVars>>

\* the end of the goroutine: the map has closed the feed's channel and the
\* range loop has drained it; the deferred close closes ch
WatchClose(w) ==
    /\ wpc[w] = "running"
    /\ mapCh[w] = <<>>
    /\ ended[w]
    /\ wpc' = [wpc EXCEPT ![w] = "closed"]
    /\ last' = NoLast
    /\ UNCHANGED <<mapVars, dev, pc, req, res, mapCh, sink, snapshot, rivals, racing,
                   taken, ended, listVars, lifeVars>>

\* -------------------------------------------------------------- List
\* List: start the enumeration and, unless that fails, the delivery goroutine
List(l) ==
    /\ lpc[l] = "idle"
    /\ LET m == devicesEntries IN
       /\ lpc' = [lpc EXCEPT ![l] = IF m.err # ErrNone THEN "failed" ELSE "running"]
       /\ \E kvs \in m.feeds : listCh' = [listCh EXCEPT ![l] = kvs]
    /\ listed' = [listed EXCEPT ![l] = <<entries, versions>>]
    /\ last' = NoLast
    /\ UNCHANGED <<mapVars, dev, pc, req, res, watchVars, rivals, lsink, ltaken, lifeVars>>

\* (a delivery that sends only what fails to decode, so sends nothing)
ListDeliverNone(l) ==
    /\ lpc[l] = "running"
    /\ listCh[l] # <<>>
    /\ listCh' = [listCh EXCEPT ![l] = Tail(listCh[l])]
    /\ ltaken' = [ltaken EXCEPT ![l] = Append(ltaken[l], Head(listCh[l]))]
    /\ last' = NoLast
    /\ UNCHANGED <<mapVars, dev, pc, req, res, watchVars, rivals, lpc, lsink, listed, lifeVars>>

\* one iteration of the delivery goroutine: receive, decode, send
ListDeliver(l) ==
    /\ lpc[l] = "running"
    /\ listCh[l] # <<>>
    /\ LET kv == Head(listCh[l])
           d == decodeDevice(kv.key, kv.value, kv.version) IN
       /\ d.err = ErrNone => l \notin gone
       /\ listCh' = [listCh EXCEPT ![l] = Tail(listCh[l])]
       /\ lsink' = IF d.err = ErrNone
                   THEN [lsink EXCEPT ![l] = Append(lsink[l], d.device)]
                   ELSE lsink
    /\ ltaken' = [ltaken EXCEPT ![l] = Append(ltaken[l], Head(listCh[l]))]
    /\ last' = NoLast
    /\ UNCHANGED <<mapVars, dev, pc, req, res, watchVars, rivals, lpc, listed, lifeVars>>

\* (a goroutine that closes ch without waiting for the enumeration's end)
ListCloseEarly(l) ==
    /\ lpc[l] = "running"
    /\ lpc' = [lpc EXCEPT ![l] = "closed"]
    /\ last' = NoLast
    /\ UNCHANGED <<mapVars, dev, pc, req, res, watchVars, rivals, listCh, lsink, listed, ltaken, lifeVars>>

\* the end of the goroutine: the enumeration is exhausted, ch is closed
ListClose(l) ==
    /\ lpc[l] = "running"
    /\ listCh[l] = <<>>
    /\ lpc' = [lpc EXCEPT ![l] = "closed"]
    /\ last' = NoLast
    /\ UNCHANGED <<mapVars, dev, pc, req, res, watchVars, rivals, listCh, lsink, listed, ltaken, lifeVars>>

\* ------------------------------------------------------------ Close
\* Close: the closer releases the map; the map ends the feed of every
\* running subscription by closing its channel
Close ==
    /\ closed' = TRUE
    /\ ended' = [w \in Watchers |-> ended[w] \/ wpc[w] = "running"]
    /\ last' = NoLast
    /\ UNCHANGED <<mapVars, dev, pc, req, res, wpc, mapCh, sink, snapshot, rivals,
                   racing, taken, listVars, gone>>

\* --------------------------------------------------------- consumers
\* the consumer of a running stream stops receiving from its channel
Abandon(s) ==
    /\ s \notin gone
    /\ \/ s \in Listers /\ lpc[s] = "running"
       \/ s \in Watchers /\ wpc[s] = "running"
    /\ gone' = gone \cup {s}
    /\ last' = NoLast
    /\ UNCHANGED <<mapVars, dev, pc, req, res, watchVars, rivals, listVars, closed>>

\* ---------------------------------------------------------------- Next
\* the callers' steps, for callers cs building devices from ids ks,
\* revisions rs and payloads ds
Calls(cs, ks, rs, ds) ==
    \/ \E c \in cs, id \in ks, revision \in rs, data \in ds :
          NewDevice(c, id, revision, data)
    \/ \E c \in cs, deviceID \in ks : Load(c, deviceID)
    \/ \E c \in cs : StoreCall(c)
    \/ \E c \in cs : StoreDone(c)
    \/ \E c \in cs : DeleteCall(c)
    \/ \E c \in cs : DeleteDone(c)

\* concurrent callers contending for one id
Next == Calls(Clients, {"d1"}, 0..MaxVersion, Data) /\ UNCHANGED script

Spec == Init /\ [][Next]_vars

\* concurrent callers contending for one id, all with the same payload
NextPair == Calls(Clients, {"d1"}, 0..MaxVersion, {"a"}) /\ UNCHANGED script

SpecPair == Init /\ [][NextPair]_vars

\* concurrent callers writing one id with different payloads, always
\* unconditionally
NextData == Calls(Clients, {"d1"}, {0}, Data) /\ UNCHANGED script

SpecData == Init /\ [][NextData]_vars

\* one caller on every id, and the Watch subscriptions
NextWatch ==
    /\ \/ Calls({"c1"}, Ids, {0}, {"a"})
       \/ \E w \in Watchers : Watch(w)
       \/ \E w \in Watchers : WatchDeliver(w)
    /\ UNCHANGED script

SpecWatch == Init /\ [][NextWatch]_vars

\* the subscriber keeps receiving: the delivery goroutine is scheduled and
\* its send on the sink is always taken
NextFeed ==
    /\ \/ Calls({"c1"}, {"d1"}, {0}, {"a"})
       \/ \E w \in Watchers : Watch(w)
       \/ \E w \in Watchers : WatchDeliver(w)
    /\ UNCHANGED script

SpecWatchFair ==
    /\ Init /\ [][NextFeed]_vars
    /\ \A w \in Watchers : WF_vars(WatchDeliver(w) /\ UNCHANGED script)

\* one caller on every id, and the List calls
NextList ==
    /\ \/ Calls({"c1"}, Ids, {0}, {"a"})
       \/ \E l \in Listers : List(l)
       \/ \E l \in Listers : ListDeliver(l)
       \/ \E l \in Listers : ListClose(l)
    /\ UNCHANGED script

SpecList == Init /\ [][NextList]_vars

\* the end-to-end scenario, run by every caller on an id of its own: Store
\* at revision 0, Load, Store at revision 1, Store at revision 1 again,
\* Delete at revision 2, Load
ScriptId(c) == IF c = "c1" THEN "d1" ELSE "d2"

Script(c) ==
    /\ script' = [script EXCEPT ![c] = @ + 1]
    /\ \/ script[c] = 0 /\ \E data \in Data : NewDevice(c, ScriptId(c), 0, data)
       \/ script[c] \in {1, 5, 8} /\ StoreCall(c)
       \/ script[c] \in {2, 6, 9} /\ StoreDone(c)
       \/ script[c] \in {3, 13} /\ Load(c, ScriptId(c))
       \/ script[c] \in {4, 7} /\ \E data \in Data : NewDevice(c, ScriptId(c), 1, data)
       \/ script[c] = 10 /\ \E data \in Data : NewDevice(c, ScriptId(c), 2, data)
       \/ script[c] = 11 /\ DeleteCall(c)
       \/ script[c] = 12 /\ DeleteDone(c)

NextScenario == \E c \in Clients : Script(c)

SpecScenario == Init /\ [][NextScenario]_vars

\* one caller on one id that another client of the map writes as well,
\* with a Watch subscription and a List call
NextRead ==
    /\ \/ Calls({"c1"}, {"d1"}, {0}, {"a"})
       \/ \E value \in ForeignBytes : ForeignPut("d1", value)
       \/ \E w \in Watchers : Watch(w)
       \/ \E w \in Watchers : WatchDeliver(w)
       \/ \E l \in Listers : List(l)
       \/ \E l \in Listers : ListDeliver(l)
       \/ \E l \in Listers : ListClose(l)
    /\ UNCHANGED script

SpecRead == Init /\ [][NextRead]_vars

\* one caller on one id, Watch and List calls, and the teardown of the
\* store at any moment
NextClose ==
    /\ \/ Calls({"c1"}, {"d1"}, {0}, {"a"})
       \/ \E w \in Watchers : Watch(w)
       \/ \E l \in Listers : List(l)
       \/ Close
    /\ UNCHANGED script

SpecClose == Init /\ [][NextClose]_vars

\* one caller storing one id and a Watch subscription, whose feed ends by
\* a failure of the backing map or the teardown of the store
NextFeedEnd ==
    /\ \/ NewDevice("c1", "d1", 0, "a")
       \/ StoreCall("c1")
       \/ StoreDone("c1")
       \/ \E w \in Watchers : Watch(w)
       \/ \E w \in Watchers : WatchDeliver(w)
       \/ \E w \in Watchers : WatchClose(w)
       \/ \E w \in Watchers : FeedFail(w)
       \/ Close
    /\ UNCHANGED script

SpecFeedEnd == Init /\ [][NextFeedEnd]_vars

\* one caller storing one id, a List call and a Watch subscription whose
\* consumers may stop receiving, and the teardown of the store; the
\* goroutines are scheduled whenever they can take a step
NextAbandon ==
    /\ \/ NewDevice("c1", "d1", 0, "a")
       \/ StoreCall("c1")
       \/ StoreDone("c1")
       \/ \E w \in Watchers : Watch(w)
       \/ \E w \in Watchers : WatchDeliver(w)
       \/ \E w \in Watchers : WatchClose(w)
       \/ \E l \in Listers : List(l)
       \/ \E l \in Listers : ListDeliver(l)
       \/ \E l \in Listers : ListClose(l)
       \/ \E s \in Listers \cup Watchers : Abandon(s)
       \/ Close
    /\ UNCHANGED script

SpecAbandonFair ==
    /\ Init /\ [][NextAbandon]_vars
    /\ \A w \in Watchers : WF_vars(WatchDeliver(w) /\ UNCHANGED script)
    /\ \A w \in Watchers : WF_vars(WatchClose(w) /\ UNCHANGED script)
    /\ \A l \in Listers : WF_vars(ListDeliver(l) /\ UNCHANGED script)
    /\ \A l \in Listers : WF_vars(ListClose(l) /\ UNCHANGED script)

\* one caller storing and deleting one id, a Watch subscription, and a map
\* whose feed carries notifications of other kinds as well
NextKinds ==
    /\ \/ Calls({"c1"}, {"d1"}, {0}, {"a"})
       \/ \E kind \in OtherKinds : MapNotify("d1", kind)
       \/ \E w \in Watchers : Watch(w)
       \/ \E w \in Watchers : WatchDeliver(w)
    /\ UNCHANGED script

SpecKinds == Init /\ [][NextKinds]_vars

\* concurrent callers contending for one id with fresh and stale revisions,
\* and the teardown of the store at any moment
NextFail ==
    /\ \/ Calls(Clients, {"d1"}, 0..1, {"a"})
       \/ Close
    /\ UNCHANGED script

SpecFail == Init /\ [][NextFail]_vars

\* one caller storing one id, Watch and List calls with their goroutines,
\* and the teardown of the store at any moment, after which a subscription
\* fails
NextSetup ==
    /\ \/ NewDevice("c1", "d1", 0, "a")
       \/ StoreCall("c1")
       \/ StoreDone("c1")
       \/ \E w \in Watchers : Watch(w)
       \/ \E w \in Watchers : WatchDeliver(w)
       \/ \E w \in Watchers : WatchClose(w)
       \/ \E l \in Listers : List(l)
       \/ \E l \in Listers : ListDeliver(l)
       \/ \E l \in Listers : ListClose(l)
       \/ Close
    /\ UNCHANGED script

SpecSetup == Init /\ [][NextSetup]_vars

\* concurrent callers on one id under which another client of the map
\* leaves undecodable bytes
NextDecode ==
    /\ \/ Calls(Clients, {"d1"}, {0}, {"a"})
       \/ \E value \in CorruptBytes : ForeignPut("d1", value)
    /\ UNCHANGED script

SpecDecode == Init /\ [][NextDecode]_vars

\* one caller storing one id while another client of the map leaves
\* undecodable bytes under the other id, with a Watch subscription and a
\* List call
NextCorrupt ==
    /\ \/ NewDevice("c1", "d1", 0, "a")
       \/ StoreCall("c1")
       \/ StoreDone("c1")
       \/ \E value \in CorruptBytes : ForeignPut("d2", value)
       \/ \E w \in Watchers : Watch(w)
       \/ \E w \in Watchers : WatchDeliver(w)
       \/ \E l \in Listers : List(l)
       \/ \E l \in Listers : ListDeliver(l)
       \/ \E l \in Listers : ListClose(l)
    /\ UNCHANGED script

SpecCorrupt == Init /\ [][NextCorrupt]_vars

\* one caller storing on every id while List streams, and the consumer
\* keeps receiving: the delivery goroutine is scheduled, its sends on ch are
\* taken and it reaches its deferred close
NextStream ==
    /\ \/ \E id \in Ids : NewDevice("c1", id, 0, "a")
       \/ StoreCall("c1")
       \/ StoreDone("c1")
       \/ \E l \in Listers : List(l)
       \/ \E l \in Listers : ListDeliver(l)
       \/ \E l \in Listers : ListClose(l)
    /\ UNCHANGED script

SpecListFair ==
    /\ Init /\ [][NextStream]_vars
    /\ \A l \in Listers : WF_vars(ListDeliver(l) /\ UNCHANGED script)
    /\ \A l \in Listers : WF_vars(ListClose(l) /\ UNCHANGED script)

TypeOK ==
    /\ \A k \in Ids : entries[k].version <= versions[k]
    /\ \A k \in Ids : versions[k] \in 0..MaxVersion
    /\ \A c \in Clients : pc[c] \in {"idle", "store", "delete"}
    /\ \A w \in Watchers : wpc[w] \in {"idle", "running", "closed", "failed"}
    /\ \A l \in Listers : lpc[l] \in {"idle", "running", "closed", "failed"}
    /\ closed \in BOOLEAN
    /\ gone \subseteq Listers \cup Watchers
    /\ \A l \in Listers : Len(listCh[l]) + Len(lsink[l]) <= Cardinality(Ids)

\* ------------------------------------------------------------ properties
\* the latest step completed a Store / Delete / Load of caller c
Stored(c) == last.op = "put" /\ last.c = c
Deleted(c) == last.op = "remove" /\ last.c = c
Loaded(c) == last.op = "get" /\ last.c = c

\* C1: when the entry of the id has version r >= 1 and the Store carries
\* revision r, the Store succeeds and the caller's revision becomes r + 1.
C1_StoreAtCurrentRevision ==
    \A c \in Clients :
        (/\ Stored(c)
         /\ last.old.present
         /\ last.old.version >= 1
         /\ last.dev.revision = last.old.version)
        => /\ res[c].err = ErrNone
           /\ dev[c].revision = last.old.version + 1
           /\ entries[last.key].version = last.old.version + 1

C1_Witness ==
    \E c \in Clients :
        /\ Stored(c) /\ last.old.present /\ last.dev.revision = last.old.version
        /\ res[c].err = ErrNone /\ dev[c].revision = last.old.version + 1

\* C2: a Store carrying revision r > 0 for an id whose entry exists with a
\* version other than r fails with ConflictError and leaves the entry as it was.
C2_StoreStaleRevision ==
    \A c \in Clients :
        (/\ Stored(c)
         /\ last.dev.revision > 0
         /\ last.old.present
         /\ last.old.version # last.dev.revision)
        => /\ res[c].err = ConflictError
           /\ entries[last.key] = last.old

C2_Witness ==
    \E c \in Clients :
        /\ Stored(c) /\ last.dev.revision > 0 /\ last.old.present
        /\ last.old.version # last.dev.revision
        /\ res[c].err = ConflictError

\* C3: of the concurrent Store calls for one id that carry the same
\* revision r > 0 at most one succeeds: a call during which another such
\* call succeeded fails with ConflictError and stores nothing.
C3_OneWinner ==
    \A c \in Clients :
        (Stored(c) /\ rivals[c] # {})
        => /\ res[c].err = ConflictError
           /\ entries[last.key] = last.old
           /\ dev[c] = last.dev

C3_Witness ==
    \E c \in Clients :
        /\ Stored(c) /\ rivals[c] # {}
        /\ res[c].err = ConflictError
        /\ entries[last.key].present
        /\ entries[last.key].value.data # last.dev.data

\* C4: a Store carrying revision 0 always succeeds: it creates the entry
\* when there is none and overwrites the value of an existing entry
\* whatever its version; it never fails with ConflictError.
C4_StoreUnconditional ==
    \A c \in Clients :
        (Stored(c) /\ last.dev.revision = 0)
        => /\ res[c].err = ErrNone
           /\ entries[last.key].present
           /\ entries[last.key].value = Marshal(last.dev)

C4_Witness ==
    \E c \in Clients :
        /\ Stored(c) /\ last.dev.revision = 0
        /\ last.old.present /\ last.old.version >= 1
        /\ last.old.value.data # last.dev.data
        /\ res[c].err = ErrNone
        /\ entries[last.key].value.data = last.dev.data

\* C5: after a successful Store the caller's revision is the version the
\* map gave the write; while the entry stays at that version, a second
\* Store of the same device succeeds and a Load returns that revision.
C5_RevisionIsToken ==
    \A c \in Clients :
        /\ (Stored(c) /\ res[c].err = ErrNone)
           => /\ entries[last.key].present
              /\ dev[c].revision = entries[last.key].version
        /\ (/\ Stored(c)
            /\ last.prev.op = "store" /\ last.prev.err = ErrNone
            /\ last.old.present /\ last.old.version = last.dev.revision)
           => res[c].err = ErrNone
        /\ (/\ Loaded(c)
            /\ last.prev.op = "store" /\ last.prev.err = ErrNone
            /\ last.key = last.dev.id
            /\ last.old.present /\ last.old.version = last.dev.revision)
           => /\ res[c].err = ErrNone /\ res[c].found
              /\ dev[c].revision = last.dev.revision

C5_Witness ==
    \E c \in Clients :
        /\ Stored(c)
        /\ last.prev.op = "store" /\ last.prev.err = ErrNone
        /\ last.old.present /\ last.old.version = last.dev.revision
        /\ res[c].err = ErrNone
        /\ dev[c].revision = entries[last.key].version

\* C6: a Store carrying revision r > 0 for an id that has no entry fails
\* with ConflictError and creates no entry.
C6_StoreOnAbsent ==
    \A c \in Clients :
        (Stored(c) /\ last.dev.revision > 0 /\ ~last.old.present)
        => /\ res[c].err = ConflictError
           /\ ~entries[last.key].present

C6_Witness ==
    \E c \in Clients :
        /\ Stored(c) /\ last.dev.revision > 0 /\ ~last.old.present
        /\ versions[last.key] >= 1
        /\ res[c].err = ConflictError

\* C7: a Delete carrying revision r > 0 removes an existing entry exactly
\* when its version is r; at another version it fails with ConflictError
\* and the entry stays as it was.
C7_DeleteConditional ==
    \A c \in Clients :
        (Deleted(c) /\ last.dev.revision > 0 /\ last.old.present)
        => IF last.old.version = last.dev.revision
           THEN res[c].err = ErrNone /\ ~entries[last.key].present
           ELSE res[c].err = ConflictError /\ entries[last.key] = last.old

C7_Witness ==
    \E c \in Clients :
        /\ Deleted(c) /\ last.dev.revision > 0 /\ last.old.present
        /\ last.old.version # last.dev.revision
        /\ res[c].err = ConflictError
        /\ entries[last.key].present

\* C8: a Delete carrying revision 0 removes the entry whatever its
\* version, also one another writer has updated since; no entry is left.
C8_DeleteUnconditional ==
    \A c \in Clients :
        (Deleted(c) /\ last.dev.revision = 0)
        => /\ res[c].err = ErrNone
           /\ ~entries[last.key].present

C8_Witness ==
    \E c \in Clients :
        /\ Deleted(c) /\ last.dev.revision = 0
        /\ last.old.present /\ last.old.version >= 2
        /\ res[c].err = ErrNone
        /\ ~entries[last.key].present

\* C9: a Delete of an id that has no entry succeeds and leaves the map as
\* it was, whatever revision the device carries; so does a second Delete
\* after a successful one.
C9_DeleteAbsent ==
    \A c \in Clients :
        (Deleted(c) /\ ~last.old.present)
        => /\ res[c].err = ErrNone
           /\ entries[last.key] = last.old

C9_Witness ==
    \E c \in Clients :
        /\ Deleted(c) /\ ~last.old.present
        /\ last.dev.revision > 0
        /\ last.prev.op = "delete" /\ last.prev.err = ErrNone
        /\ res[c].err = ErrNone

\* the subscriber of w has received x in the replay or as an Inserted event
Observed(w, x) ==
    \E i \in 1..Len(sink[w]) :
        /\ sink[w][i].device.id = x
        /\ (i <= snapshot[w] \/ sink[w][i].type = EventInserted)

\* the feed of w still holds a replay or an Inserted event for x
Pending(w, x) ==
    \E i \in 1..Len(mapCh[w]) :
        /\ mapCh[w][i].key = x
        /\ (mapCh[w][i].replay \/ mapCh[w][i].type = EventInserted)

\* C10: whatever the interleaving of a Store of X with the setup of a Watch
\* subscription, X reaches the subscriber in the replay or as an Inserted
\* event of the live tail: once the feed is drained X has been observed.
C10_WatchNoGap ==
    \A w \in Watchers, x \in Ids :
        (wpc[w] = "running" /\ entries[x].present)
        => /\ Observed(w, x) \/ Pending(w, x)
           /\ mapCh[w] = <<>> => Observed(w, x)

C10_Witness ==
    \E w \in Watchers, c \in Clients :
        /\ wpc[w] = "running"
        /\ c \in racing[w]
        /\ pc[c] = "idle" /\ res[c].op = "store" /\ res[c].err = ErrNone
        /\ entries[dev[c].id].present
        /\ mapCh[w] = <<>>
        /\ \E i \in 1..Len(sink[w]) :
              /\ i > snapshot[w]
              /\ sink[w][i].type = EventInserted
              /\ sink[w][i].device = dev[c]

\* the replayed part and the live part of what a subscriber has received
Replayed(w) == 1..snapshot[w]
Live(w) == (snapshot[w] + 1)..Len(sink[w])

\* no live event has been published to the subscription yet
NoLiveYet(w) ==
    /\ Len(sink[w]) = snapshot[w]
    /\ \A i \in 1..Len(mapCh[w]) : mapCh[w][i].replay

\* the replayed entries of key k: those received and those still in the feed
ReplaysOf(w, k) ==
    Cardinality({i \in Replayed(w) : sink[w][i].device.id = k})
    + Cardinality({i \in 1..Len(mapCh[w]) : mapCh[w][i].replay /\ mapCh[w][i].key = k})

\* C11: within one Watch subscription nothing is delivered twice: an entry
\* that exists at the subscription point is replayed exactly once (never a
\* second time, and not as a live event either), and the live events on the
\* sink are pairwise different mutations (type, id, revision).
C11_WatchNoDuplicate ==
    \A w \in Watchers :
        wpc[w] = "running" =>
            /\ \A i, j \in Replayed(w) :
                  i # j => sink[w][i].device.id # sink[w][j].device.id
            /\ \A i, j \in Live(w) : i # j => sink[w][i] # sink[w][j]
            /\ \A i \in Replayed(w), j \in Live(w) :
                  ~ /\ sink[w][j].type \in {EventInserted, EventUpdated}
                    /\ sink[w][j].device.id = sink[w][i].device.id
                    /\ sink[w][j].device.revision = sink[w][i].device.revision
            /\ NoLiveYet(w) =>
                  \A k \in Ids :
                      ReplaysOf(w, k) = IF entries[k].present THEN 1 ELSE 0

C11_Witness ==
    \E w \in Watchers :
        /\ wpc[w] = "running"
        /\ mapCh[w] = <<>>
        /\ snapshot[w] = 1
        /\ Len(sink[w]) = 3
        /\ sink[w][2].device.id = sink[w][1].device.id
        /\ sink[w][3].device.id = sink[w][1].device.id

\* C12: within one Watch subscription every replayed event reaches the sink
\* before any live event: once a live event is on the sink, no replayed
\* event is still waiting in the feed.
C12_ReplayBeforeLive ==
    \A w \in Watchers :
        Len(sink[w]) > snapshot[w]
        => \A i \in 1..Len(mapCh[w]) : ~mapCh[w][i].replay

C12_Witness ==
    \E w \in Watchers :
        /\ wpc[w] = "running"
        /\ snapshot[w] = 2
        /\ Len(sink[w]) = 3
        /\ sink[w][3].type = EventRemoved

\* C13: within one Watch subscription the events of one id are on the sink
\* in the order the map applied them: revisions never go backwards, and at
\* equal revisions the write comes before the remove of what it wrote.
C13_WatchOrdered ==
    \A w \in Watchers :
        \A i, j \in 1..Len(sink[w]) :
            (i < j /\ sink[w][i].device.id = sink[w][j].device.id)
            => /\ sink[w][i].device.revision <= sink[w][j].device.revision
               /\ sink[w][i].device.revision = sink[w][j].device.revision
                  => /\ sink[w][i].type # EventRemoved
                     /\ sink[w][j].type = EventRemoved

C13_Witness ==
    \E w \in Watchers :
        /\ Len(sink[w]) = 3
        /\ sink[w][1].type = EventInserted /\ sink[w][1].device.revision = 1
        /\ sink[w][2].type = EventUpdated /\ sink[w][2].device.revision = 2
        /\ sink[w][3].type = EventRemoved /\ sink[w][3].device.revision = 2
        /\ sink[w][1].device.id = sink[w][2].device.id
        /\ sink[w][2].device.id = sink[w][3].device.id

\* the live event of type t for key k at version v waits in the feed of w
InFeed(w, t, k, v) ==
    \E i \in 1..Len(mapCh[w]) :
        /\ ~mapCh[w][i].replay
        /\ mapCh[w][i].type = t
        /\ mapCh[w][i].key = k
        /\ mapCh[w][i].version = v

\* the subscriber of w has received the live event of type t for k at v
OnSink(w, t, k, v) ==
    \E i \in Live(w) :
        /\ sink[w][i].type = t
        /\ sink[w][i].device.id = k
        /\ sink[w][i].device.revision = v

\* the mutation just applied has put its event, of the matching type, at
\* the end of the feed of every running subscription
Announced ==
    \A w \in Watchers, c \in Clients :
        wpc[w] = "running" =>
            /\ (Stored(c) /\ res[c].err = ErrNone)
               => /\ mapCh[w] # <<>>
                  /\ LET e == mapCh[w][Len(mapCh[w])] IN
                         /\ ~e.replay
                         /\ e.key = last.key
                         /\ e.version = dev[c].revision
                         /\ e.type = IF last.old.present THEN EventUpdated
                                     ELSE EventInserted
            /\ (Deleted(c) /\ res[c].err = ErrNone /\ last.old.present)
               => /\ mapCh[w] # <<>>
                  /\ LET e == mapCh[w][Len(mapCh[w])] IN
                         /\ ~e.replay
                         /\ e.key = last.key
                         /\ e.version = last.old.version
                         /\ e.type = EventRemoved

\* C14: while the subscriber keeps receiving, every successful mutation
\* applied after the subscription point eventually produces an event of the
\* matching type on the sink: Inserted for a creating Store, Updated for an
\* overwriting Store, Removed for a removing Delete.
C14_WatchEventually ==
    /\ []Announced
    /\ \A w \in Watchers, k \in Ids, v \in 1..MaxVersion :
          \A t \in {EventInserted, EventUpdated, EventRemoved} :
              InFeed(w, t, k, v) ~> OnSink(w, t, k, v)

C14_Witness ==
    \E w \in Watchers, k \in Ids :
        /\ wpc[w] = "running"
        /\ snapshot[w] = 0
        /\ mapCh[w] = <<>>
        /\ OnSink(w, EventInserted, k, 1)
        /\ OnSink(w, EventUpdated, k, 2)
        /\ OnSink(w, EventRemoved, k, 2)

\* no Store or Delete has changed the map since the List call of l
Quiet(l) == listed[l] = <<entries, versions>>

\* the ids that have an entry
Present == {k \in Ids : entries[k].present}

\* C15: after Stores of N distinct ids and with no mutation during the
\* listing, a finished List has delivered exactly N devices: one per stored
\* id, none repeated, each with the id and the current revision of its entry.
C15_ListExactlyOnce ==
    \A l \in Listers :
        (lpc[l] = "closed" /\ Quiet(l))
        => /\ Len(lsink[l]) = Cardinality(Present)
           /\ \A k \in Present :
                 \E i \in 1..Len(lsink[l]) :
                     /\ lsink[l][i].id = k
                     /\ lsink[l][i].revision = entries[k].version
           /\ \A i, j \in 1..Len(lsink[l]) :
                 i # j => lsink[l][i].id # lsink[l][j].id

C15_Witness ==
    \E l \in Listers :
        /\ lpc[l] = "closed" /\ Quiet(l)
        /\ Present = Ids
        /\ Len(lsink[l]) = Cardinality(Ids)

\* what List has enumerated and not yet delivered is empty, and every entry
\* of the map as it was at the call is on the sink
AllDelivered(l) ==
    /\ listCh[l] = <<>>
    /\ \A k \in Ids :
          listed[l][1][k].present
          => \E i \in 1..Len(lsink[l]) :
                 /\ lsink[l][i].id = k
                 /\ lsink[l][i].revision = listed[l][1][k].version

\* C16: a List stream is finite: once List has returned and the consumer
\* keeps receiving, the sink is eventually closed, and it is never closed
\* before every enumerated entry has been delivered.
C16_ListFinite ==
    /\ \A l \in Listers : [](lpc[l] = "closed" => AllDelivered(l))
    /\ \A l \in Listers : lpc[l] = "running" ~> lpc[l] = "closed"

C16_Witness ==
    \E l \in Listers :
        /\ lpc[l] = "closed"
        /\ Len(lsink[l]) = 2
        /\ ~Quiet(l)

\* the item a sink has received last
Newest(ch) == ch[Len(ch)]

\* C17: every Device that Load, List or Watch hands out carries as id the
\* key of the map entry (or raw event) it was decoded from and as revision
\* that entry's version, whatever id and revision its payload encodes.
HandOutStep ==
    /\ \A c \in Clients :
          (last'.op = "get" /\ last'.c = c /\ res'[c].found)
          => /\ dev'[c].id = last'.key
             /\ dev'[c].revision = entries[last'.key].version
    /\ \A l \in Listers :
          Len(lsink'[l]) > Len(lsink[l])
          => /\ Newest(lsink'[l]).id = Head(listCh[l]).key
             /\ Newest(lsink'[l]).revision = Head(listCh[l]).version
    /\ \A w \in Watchers :
          Len(sink'[w]) > Len(sink[w])
          => /\ Newest(sink'[w]).device.id = Head(mapCh[w]).key
             /\ Newest(sink'[w]).device.revision = Head(mapCh[w]).version

C17_KeyAndVersion == [][HandOutStep]_vars

\* Load, List and Watch have each handed out the device of an entry whose
\* payload encodes another id and another revision
C17_Witness ==
    \E c \in Clients, l \in Listers, w \in Watchers, b \in ForeignBytes :
        /\ Loaded(c) /\ res[c].found
        /\ last.old.value = b
        /\ b.id # last.key /\ b.revision # last.old.version
        /\ dev[c].id = last.key /\ dev[c].revision = last.old.version
        /\ \E i \in 1..Len(lsink[l]) : lsink[l][i] = dev[c]
        /\ \E i \in 1..Len(sink[w]) : sink[w][i].device = dev[c]

\* caller d holds a revision of id k that a Store yielded or a Load showed
Holds(d, k) ==
    /\ dev[d].id = k
    /\ \/ res[d].op = "store" /\ res[d].err = ErrNone
       \/ res[d].op = "load" /\ res[d].err = ErrNone /\ res[d].found

\* C18: over every sequence of Store and Delete calls by any number of
\* callers the revision of an id never goes back: a successful Store yields
\* a revision above the version it replaced, at the map's counter for the
\* id, and not below any revision a caller was given or shown for the id.
C18_RevisionMonotonic ==
    \A c \in Clients :
        (Stored(c) /\ res[c].err = ErrNone)
        => /\ dev[c].revision = versions[last.key]
           /\ last.old.present => dev[c].revision > last.old.version
           /\ \A d \in Clients \ {c} :
                 Holds(d, last.key) => dev[c].revision >= dev[d].revision
           /\ (last.prev.err = ErrNone /\ last.prev.op \in {"store", "load"}
               /\ (last.prev.op = "load" => last.prev.found))
              => dev[c].revision >= last.dev.revision

\* a Store that creates the id again after a Delete yields a revision
\* above the one another caller was shown before the Delete
C18_Witness ==
    \E c \in Clients, d \in Clients :
        /\ c # d
        /\ Stored(c) /\ res[c].err = ErrNone
        /\ ~last.old.present
        /\ Holds(d, last.key)
        /\ dev[d].revision >= 1
        /\ dev[c].revision > dev[d].revision

\* the empty result of Load: no device, no error
NotFound == [op |-> "load", err |-> ErrNone, found |-> FALSE]

\* C19: a Load of an id that has no entry returns the empty result (no
\* device, no error) and leaves the caller's device alone; a successful
\* Delete leaves the id without entry, and only a successful Store gives it
\* one again, so a Load after a Delete with no later Store finds nothing.
LoadMissStep ==
    /\ \A c \in Clients :
          (last'.op = "get" /\ last'.c = c)
          => /\ last'.old = entries[last'.key]
             /\ ~entries[last'.key].present
                => res'[c] = NotFound /\ dev'[c] = dev[c]
    /\ \A c \in Clients :
          (last'.op = "remove" /\ last'.c = c /\ res'[c].err = ErrNone)
          => ~entries'[last'.key].present
    /\ \A k \in Ids :
          (~entries[k].present /\ entries'[k].present)
          => /\ last'.op = "put" /\ last'.key = k
             /\ res'[last'.c].err = ErrNone

C19_LoadNotFound == [][LoadMissStep]_vars

\* a caller's Load right after its own successful Delete of an id that
\* had been stored finds nothing
C19_Witness ==
    \E c \in Clients :
        /\ Loaded(c)
        /\ last.prev.op = "delete" /\ last.prev.err = ErrNone
        /\ last.key = last.dev.id
        /\ versions[last.key] >= 1
        /\ ~last.old.present
        /\ res[c] = NotFound

\* the results of Store and Delete
StoreOk == [op |-> "store", err |-> ErrNone, found |-> FALSE]
StoreConflict == [op |-> "store", err |-> ConflictError, found |-> FALSE]
DeleteOk == [op |-> "delete", err |-> ErrNone, found |-> FALSE]

\* C20: on a fresh store, Store of d1 at revision 0 yields revision 1; Load
\* of d1 shows revision 1; Store at revision 1 yields revision 2; a further
\* Store at revision 1 fails with ConflictError; Delete at revision 2
\* succeeds; Load of d1 then finds nothing.
C20_Scenario ==
    \A c \in Clients :
        /\ script[c] = 3 => res[c] = StoreOk /\ dev[c].revision = 1
        /\ script[c] = 4
           => /\ res[c] = [op |-> "load", err |-> ErrNone, found |-> TRUE]
              /\ dev[c].id = ScriptId(c) /\ dev[c].revision = 1
        /\ script[c] = 7 => res[c] = StoreOk /\ dev[c].revision = 2
        /\ script[c] = 10
           => /\ res[c] = StoreConflict
              /\ entries[ScriptId(c)].version = 2
        /\ script[c] = 13 => res[c] = DeleteOk /\ ~entries[ScriptId(c)].present
        /\ script[c] = 14 => res[c] = NotFound

C20_Witness ==
    /\ script["c1"] = 14
    /\ res["c1"] = NotFound
    /\ versions["d1"] = 2

Decodable(x) == decodeDevice(x.key, x.value, x.version).err = ErrNone

Decoded(x) == decodeDevice(x.key, x.value, x.version).device

C22_SkipUndecodable ==
    /\ \A w \in Watchers :
          LET good == SelectSeq(taken[w], Decodable) IN
          /\ Len(sink[w]) = Len(good)
          /\ \A i \in 1..Len(good) :
                sink[w][i] = [type |-> good[i].type, device |-> Decoded(good[i])]
          /\ taken[w] # <<>> => wpc[w] = "running"
    /\ \A l \in Listers :
          LET good == SelectSeq(ltaken[l], Decodable) IN
          /\ Len(lsink[l]) = Len(good)
          /\ \A i \in 1..Len(good) : lsink[l][i] = Decoded(good[i])
          /\ ltaken[l] # <<>> => lpc[l] \in {"running", "closed"}
          /\ lpc[l] = "closed" => listCh[l] = <<>>

\* the Watch goroutine has received a decodable event, an undecodable one
\* and a decodable one, in that order, and sent two events; the List
\* goroutine has received an undecodable entry and then a decodable one,
\* and sent one device
C22_Witness ==
    /\ \E w \in Watchers :
          /\ Len(taken[w]) = 3
          /\ Decodable(taken[w][1]) /\ ~Decodable(taken[w][2]) /\ Decodable(taken[w][3])
          /\ Len(sink[w]) = 2
    /\ \E l \in Listers :
          /\ Len(ltaken[l]) = 2
          /\ ~Decodable(ltaken[l][1]) /\ Decodable(ltaken[l][2])
          /\ Len(lsink[l]) = 1
          /\ lpc[l] = "closed"

\* C23: a Load that finds bytes under the id that fail to decode fails with
\* the decode error and hands no device to its caller: the outcome is
\* neither not-found nor a found device, and the caller's device is untouched.
C23_LoadDecodeError ==
    \A c \in Clients :
        (Loaded(c) /\ last.old.present /\ Unmarshal(last.old.value).err # ErrNone)
        => /\ res[c] = [op |-> "load", err |-> DecodeError, found |-> FALSE]
           /\ res[c] # NotFound
           /\ dev[c] = last.dev

\* a caller whose Store of the id succeeded loads it after another client
\* has overwritten it with undecodable bytes
C23_Witness ==
    \E c \in Clients :
        /\ Loaded(c)
        /\ last.old.present /\ ~last.old.value.wf /\ last.old.version = 2
        /\ last.prev = StoreOk
        /\ res[c].err = DecodeError
        /\ dev[c] = Device("d1", 1, "a")

\* C24: the store only ever goes from open to closed, and once it is closed
\* every Load, Store, Delete, List and Watch fails with ClosedStore: the map
\* is neither consulted nor changed, the caller's device is left as it was,
\* and no stream is started.
RefusedStep ==
    /\ closed => closed'
    /\ closed =>
          /\ \A c \in Clients :
                last'.c = c
                => /\ res'[c].err = ClosedStore /\ ~res'[c].found
                   /\ last'.op = "refused"
                   /\ dev' = dev
                   /\ UNCHANGED mapVars
          /\ \A w \in Watchers :
                (wpc[w] = "idle" /\ wpc'[w] # "idle")
                => /\ wpc'[w] = "failed"
                   /\ mapCh'[w] = <<>> /\ sink'[w] = sink[w]
                   /\ UNCHANGED mapVars
          /\ \A l \in Listers :
                (lpc[l] = "idle" /\ lpc'[l] # "idle")
                => /\ lpc'[l] = "failed"
                   /\ listCh'[l] = <<>> /\ lsink'[l] = lsink[l]
                   /\ UNCHANGED mapVars

C25_TaskTerminates ==
    /\ \A l \in Listers : (l \in gone) ~> (lpc[l] # "running")
    /\ \A w \in Watchers : (w \in gone) ~> (wpc[w] # "running")

\* C26: the events a Watch subscription starts with replay the entries the
\* map holds at that moment, each under its key and current version, and
\* each is delivered as an Inserted event whose device carries that key as
\* its id and that version as its revision.
ReplayStep ==
    \A w \in Watchers :
        /\ (wpc[w] = "idle" /\ wpc'[w] = "running")
           => \A i \in 1..Len(mapCh'[w]) :
                 LET event == mapCh'[w][i] IN
                 /\ event.replay
                 /\ entries[event.key].present
                 /\ event.version = entries[event.key].version
        /\ (mapCh[w] # <<>> /\ Head(mapCh[w]).replay /\ mapCh'[w] = Tail(mapCh[w]))
           => /\ Len(sink'[w]) = Len(sink[w]) + 1
              /\ LET event == Head(mapCh[w])
                     sent == sink'[w][Len(sink'[w])] IN
                 /\ sent.type = EventInserted
                 /\ sent.device.id = event.key
                 /\ sent.device.revision = event.version

C26_ReplayInserted == [][ReplayStep]_vars

\* the subscription began after another client had overwritten the caller's
\* device; the replayed event was delivered as Inserted with the key and
\* the version of the entry, not the id and revision found in its bytes
C26_Witness ==
    \E w \in Watchers :
        /\ taken[w] # <<>> /\ taken[w][1].replay
        /\ sink[w] # <<>>
        /\ sink[w][1] = [type |-> EventInserted, device |-> Device("d1", 2, "b")]

\* C27: an event whose raw kind is inserted, updated or removed is delivered
\* with the type of the same name and an event of any other raw kind with
\* type None, so that every delivered type is one of None, Inserted,
\* Updated and Removed.
C27_KindsTranslated ==
    \A w \in Watchers :
        LET good == SelectSeq(taken[w], Decodable) IN
        \A i \in 1..Len(sink[w]) :
            /\ sink[w][i].type \in {EventNone, EventInserted, EventUpdated, EventRemoved}
            /\ i <= Len(good)
               => sink[w][i].type =
                     IF good[i].type \in {EventInserted, EventUpdated, EventRemoved}
                     THEN good[i].type
                     ELSE EventNone

\* C28 as stated: the snapshot is emitted only to a Watch that requested
\* replay, and a Watch that did not is sent no event for the entries that
\* existed, unchanged, before it subscribed. Watch takes the sink and
\* nothing else, so no caller ever requests replay.
replayExisting(w) == FALSE

C28_SnapshotOnRequest ==
    \A w \in Watchers :
        ~replayExisting(w)
        => \A i \in 1..Len(taken[w]) : ~taken[w][i].replay

\* C28, amended: every Watch subscribes with replay, so the feed of every
\* subscription starts with an event for each entry the map holds at that
\* moment, and each of these events that decodes is sent to the sink.
SnapshotStep ==
    \A w \in Watchers :
        /\ (wpc[w] = "idle" /\ wpc'[w] = "running")
           => \A k \in Ids :
                 entries[k].present
                 => \E i \in 1..Len(mapCh'[w]) :
                       mapCh'[w][i].key = k /\ mapCh'[w][i].replay
        /\ (mapCh[w] # <<>> /\ Head(mapCh[w]).replay /\ mapCh'[w] = Tail(mapCh[w])
            /\ Decodable(Head(mapCh[w])))
           => /\ sink'[w] # sink[w]
              /\ snapshot'[w] = snapshot[w] + 1

C28_SnapshotAlways == [][SnapshotStep]_vars

\* a subscription made when both ids were stored, each written once, has
\* been sent an event for each of them and nothing else
C28_Witness ==
    \E w \in Watchers :
        /\ \A k \in Ids : entries[k].present /\ versions[k] = 1
        /\ Len(taken[w]) = 2 /\ taken[w][1].replay /\ taken[w][2].replay
        /\ Len(sink[w]) = 2
        /\ {sink[w][1].device.id, sink[w][2].device.id} = Ids
        /\ mapCh[w] = <<>>

\* C29: the goroutine of Watch closes the sink only when the feed has ended,
\* by the store's teardown or a failure of the backing map, and everything
\* the feed carried has been received; a closed sink stays closed, so it is
\* closed once, and nothing is sent on it any more.
SinkCloseStep ==
    \A w \in Watchers :
        /\ (wpc[w] # "closed" /\ wpc'[w] = "closed")
           => /\ wpc[w] = "running"
              /\ ended[w]
              /\ mapCh[w] = <<>>
        /\ wpc[w] = "closed"
           => /\ wpc'[w] = "closed"
              /\ sink'[w] = sink[w]

C29_SinkClosedAtEnd == [][SinkCloseStep]_vars

\* the store was torn down while the subscription had an event to deliver:
\* the event was sent, then the sink was closed, and a Store refused since
\* has added nothing
C29_Witness ==
    \E w \in Watchers :
        /\ wpc[w] = "closed" /\ ended[w] /\ closed
        /\ Len(sink[w]) = 1
        /\ res["c1"] = [op |-> "store", err |-> ClosedStore, found |-> FALSE]

\* C30: every entry the map holds has a version of at least 1, and so has
\* the revision of every device that a successful Store left with its
\* caller, that a Load found or that a List delivered.
C30_RevisionPositive ==
    /\ \A k \in Ids : entries[k].present => entries[k].version >= 1
    /\ \A c \in Clients :
          /\ (Stored(c) /\ res[c].err = ErrNone) => dev[c].revision >= 1
          /\ (Loaded(c) /\ res[c].found) => dev[c].revision >= 1
    /\ \A l \in Listers :
          \A i \in 1..Len(lsink[l]) : lsink[l][i].revision >= 1

\* the caller stored its device at revision 0, another client overwrote the
\* entry, a List delivered it and the caller has just loaded it: both carry
\* the version of the entry, 2
C30_Witness ==
    /\ Loaded("c1") /\ res["c1"].found
    /\ last.prev = StoreOk /\ last.dev.revision = 1
    /\ dev["c1"].revision = 2
    /\ \E l \in Listers : Len(lsink[l]) = 1 /\ lsink[l][1].revision = 2

\* C31: no operation retries. The step that completes a Load, a Store or a
\* Delete has issued one request to the map, and when the call returns an
\* error nothing was written: the entry is as the one request found it.
C31_NoRetry ==
    \A c \in Clients :
        last.c = c
        => /\ last.requests <= 1
           /\ res[c].err # ErrNone => entries[last.key] = last.old

\* a Store carrying a revision the entry has left behind has returned the
\* conflict, and the entry still has the version the other caller gave it
C31_Witness ==
    \E c \in Clients :
        /\ last.c = c /\ last.op = "put" /\ last.requests = 1
        /\ res[c] = StoreConflict
        /\ last.dev.revision = 1
        /\ entries["d1"].present /\ entries["d1"].version = 2

\* C32: a Store that returns an error leaves the caller's device as it was,
\* its revision included, and a Delete leaves it as it was whether it
\* succeeds or fails.
C32_DeviceUntouched ==
    \A c \in Clients :
        /\ (last.c = c /\ res[c].op = "store" /\ res[c].err # ErrNone)
           => dev[c] = last.dev
        /\ (last.c = c /\ res[c].op = "delete")
           => dev[c] = last.dev

\* a Delete at revision 1 has removed the entry and the caller's device
\* still carries revision 1, after a Store of the other caller at a stale
\* revision 1 had failed and left that caller's revision at 1
C32_Witness ==
    \E c \in Clients, d \in Clients :
        /\ c # d
        /\ last.c = c /\ res[c] = DeleteOk /\ last.old.present
        /\ ~entries["d1"].present
        /\ dev[c].revision = 1
        /\ res[d] = StoreConflict /\ dev[d].revision = 1

\* C33: Load, List and Watch are read-only. A step that completes a Load,
\* that makes or fails a Watch or List subscription, or that is taken by
\* one of their goroutines leaves the value, the version and the presence
\* of every entry of the map as they were.
ReadStep ==
    \/ \E c \in Clients : last'.c = c /\ res'[c].op = "load"
    \/ \E w \in Watchers : wpc'[w] # wpc[w] \/ Len(mapCh'[w]) < Len(mapCh[w])
    \/ \E l \in Listers : lpc'[l] # lpc[l] \/ Len(listCh'[l]) < Len(listCh[l])

C33_ReadOnly == [][ReadStep => (entries' = entries /\ versions' = versions)]_vars

\* on a store whose entry another client has overwritten, a Load has found
\* the entry, a List has delivered it and closed, and a Watch has delivered
\* it: the entry is still the one the other client wrote
C33_Witness ==
    /\ Loaded("c1") /\ res["c1"].found
    /\ entries["d1"] = last.old
    /\ entries["d1"].value \in ForeignBytes
    /\ \A l \in Listers : lpc[l] = "closed" /\ Len(lsink[l]) = 1
    /\ \A w \in Watchers : wpc[w] = "running" /\ Len(sink[w]) = 1 /\ mapCh[w] = <<>>

\* C34: what a List or Watch goroutine sends is what it receives, less the
\* undecodable items, in the order of the map's channel whatever the ids.
\* Every step either leaves the items waiting on the channel in place (the
\* map may add to them) or takes the first of them, which is then appended
\* to what was sent if it decodes and leaves what was sent as it is if not;
\* however long an item waits, none is dropped, reordered or sent twice.
IsPrefix(s, t) == Len(s) <= Len(t) /\ SubSeq(t, 1, Len(s)) = s

RelayStep ==
    /\ \A w \in Watchers :
          wpc[w] = "running"
          => \/ IsPrefix(mapCh[w], mapCh'[w]) /\ sink'[w] = sink[w]
             \/ /\ mapCh[w] # <<>>
                /\ mapCh'[w] = Tail(mapCh[w])
                /\ sink'[w] = IF Decodable(Head(mapCh[w]))
                              THEN Append(sink[w], [type |-> Head(mapCh[w]).type,
                                                    device |-> Decoded(Head(mapCh[w]))])
                              ELSE sink[w]
    /\ \A l \in Listers :
          lpc[l] = "running"
          => \/ listCh'[l] = listCh[l] /\ lsink'[l] = lsink[l]
             \/ /\ listCh[l] # <<>>
                /\ listCh'[l] = Tail(listCh[l])
                /\ lsink'[l] = IF Decodable(Head(listCh[l]))
                               THEN Append(lsink[l], Decoded(Head(listCh[l])))
                               ELSE lsink[l]

C34_RelayInOrder == [][RelayStep]_vars

\* the Watch goroutine has sent the replayed event of d1 while an
\* undecodable event of d2 and a later event of d1 wait on its channel;
\* the List goroutine has sent d1 and has the undecodable d2 still waiting
C34_Witness ==
    /\ \E w \in Watchers :
          /\ wpc[w] = "running"
          /\ Len(sink[w]) = 1 /\ sink[w][1].device.id = "d1"
          /\ Len(mapCh[w]) = 2
          /\ ~Decodable(mapCh[w][1]) /\ mapCh[w][1].key = "d2"
          /\ Decodable(mapCh[w][2]) /\ mapCh[w][2].key = "d1"
    /\ \E l \in Listers :
          /\ lpc[l] = "running"
          /\ Len(lsink[l]) = 1 /\ lsink[l][1].id = "d1"
          /\ Len(listCh[l]) = 1 /\ ~Decodable(listCh[l][1])

\* C35: when the subscription on the map fails, Watch and List return the
\* error and that is all: no goroutine is started, so from then on nothing
\* is received from the map, nothing is sent to the sink and the sink is
\* never closed.
SetupStep ==
    /\ \A w \in Watchers :
          /\ (wpc[w] = "idle" /\ wpc'[w] # "idle" /\ devicesWatch(TRUE).err # ErrNone)
             => wpc'[w] = "failed"
          /\ wpc[w] = "failed" => wpc'[w] = "failed"
          /\ wpc'[w] = "failed"
             => mapCh'[w] = <<>> /\ taken'[w] = <<>> /\ sink'[w] = <<>>
    /\ \A l \in Listers :
          /\ (lpc[l] = "idle" /\ lpc'[l] # "idle" /\ devicesEntries.err # ErrNone)
             => lpc'[l] = "failed"
          /\ lpc[l] = "failed" => lpc'[l] = "failed"
          /\ lpc'[l] = "failed"
             => listCh'[l] = <<>> /\ ltaken'[l] = <<>> /\ lsink'[l] = <<>>

C35_SetupFailure == [][SetupStep]_vars

\* a Watch and a List on a torn-down store that holds an entry have failed,
\* and a Store attempted since has been refused: both sinks are empty and
\* not closed
C35_Witness ==
    /\ closed /\ entries["d1"].present
    /\ \A w \in Watchers : wpc[w] = "failed" /\ sink[w] = <<>>
    /\ \A l \in Listers : lpc[l] = "failed" /\ lsink[l] = <<>>
    /\ last.c = "c1" /\ res["c1"] = [op |-> "store", err |-> ClosedStore, found |-> FALSE]
====
